---------------------------- MODULE Spec2Model ----------------------------
(***************************************************************************)
(* A model of ffmpegfs' src/ffmpeg_utils.cc: the destination format        *)
(* catalog (get_filetype, get_filetype_from_list, get_codecs), the path    *)
(* string functions (replace_ext, remove_path, get_destname), mktree and   *)
(* is_mount.                                                               *)
(*                                                                         *)
(* A std::string / char* is a sequence of one-character strings, so that   *)
(* "mp3" is <<"m", "p", "3">>.                                             *)
(***************************************************************************)
EXTENDS Integers, Sequences, FiniteSets, TLC

VARIABLES
    call,           \* the last call: its function, its arguments, its result
    format,         \* the ffmpegfs_format object get_codecs fills
    filename,       \* the std::string replace_ext works on
    ext,            \* the target extension handed to replace_ext
    prev,           \* filename before the last replace_ext
    n_replaced,     \* how many times replace_ext was applied to filename
    \* ---- mktree, run by several threads on one file system
    fs,             \* the directories that exist (besides "/")
    faults,         \* how many mkdir calls failed for a reason of the
                    \* environment (EACCES)
    olds,           \* strtok's static save pointer, shared by all threads
    buf,            \* per thread: the characters of its path copy
    live,           \* per thread: whether its path copy is allocated
    pc,             \* per thread: its place in mktree
    p,              \* per thread: the local p
    dir,            \* per thread: the local dir
    status,         \* per thread: the local status
    newstat,        \* per thread: the local newstat
    errno,          \* per thread: errno after its last mkdir
    running,        \* per thread: the running call, its argument and its
                    \* mkdir calls so far
    rets            \* per thread: the calls that returned

pureVars == <<call, format, filename, ext, prev, n_replaced>>

treeVars == <<fs, faults, olds, buf, live, pc, p, dir, status, newstat, errno,
              running, rets>>

vars == <<pureVars, treeVars>>

\* Before any call.
NoCall == [fn |-> "none"]

\* The threads that call mktree.
Threads == {1, 2}

\* A char* is the thread whose path copy it points into and a 1-based place
\* in that copy; nullptr is NullPtr.
NullPtr == [b |-> 0, i |-> 0]

\* No replace_ext call is under way.
PathIdle ==
    /\ filename = <<>>
    /\ ext = <<>>
    /\ prev = <<>>
    /\ n_replaced = 0

\* No thread is inside mktree, on a file system that holds "/" alone.
TreeIdle ==
    /\ fs = {}
    /\ faults = 0
    /\ olds = NullPtr
    /\ buf = [t \in Threads |-> <<>>]
    /\ live = [t \in Threads |-> FALSE]
    /\ pc = [t \in Threads |-> "idle"]
    /\ p = [t \in Threads |-> NullPtr]
    /\ dir = [t \in Threads |-> <<>>]
    /\ status = [t \in Threads |-> 0]
    /\ newstat = [t \in Threads |-> 0]
    /\ errno = [t \in Threads |-> "0"]
    /\ running = [t \in Threads |-> [filename |-> <<>>, mkdirs |-> <<>>]]
    /\ rets = [t \in Threads |-> <<>>]

---------------------------------------------------------------------------
(* Characters.  Ascii[i] is the character with code 43 + i (',' .. 'z');   *)
(* codes 92 and 96 (backslash, backquote) are written <92> and <96>.      *)

Ascii ==
    << ",", "-", ".", "/",
       "0", "1", "2", "3", "4", "5", "6", "7", "8", "9",
       ":", ";", "<", "=", ">", "?", "@",
       "A", "B", "C", "D", "E", "F", "G", "H", "I", "J", "K", "L", "M",
       "N", "O", "P", "Q", "R", "S", "T", "U", "V", "W", "X", "Y", "Z",
       "[", "<92>", "]", "^", "_", "<96>",
       "a", "b", "c", "d", "e", "f", "g", "h", "i", "j", "k", "l", "m",
       "n", "o", "p", "q", "r", "s", "t", "u", "v", "w", "x", "y", "z" >>

\* The place of every character in Ascii.
Index == [c \in {Ascii[i] : i \in 1..Len(Ascii)} |->
             CHOOSE i \in 1..Len(Ascii) : Ascii[i] = c]

\* The character code of c.
Code(c) == 43 + Index[c]

\* libc tolower in the C locale: 'A'..'Z' (65..90) move up by 32.
tolower(c) ==
    IF Code(c) >= 65 /\ Code(c) <= 90 THEN Ascii[Code(c) + 32 - 43] ELSE c

\* strcmp(s1, s2): byte-wise, case-sensitive.  The sign of the first
\* difference (the terminating NUL counts as code 0), 0 when equal.
RECURSIVE strcmp(_, _)
strcmp(s1, s2) ==
    IF s1 = <<>> /\ s2 = <<>> THEN 0
    ELSE IF s1 = <<>> THEN -1
    ELSE IF s2 = <<>> THEN 1
    ELSE IF Code(Head(s1)) # Code(Head(s2))
         THEN (IF Code(Head(s1)) < Code(Head(s2)) THEN -1 ELSE 1)
    ELSE strcmp(Tail(s1), Tail(s2))

\* strcasecmp(s1, s2): the std::string overload hands both c_str()s to libc
\* strcasecmp, which compares the lower-cased bytes.
RECURSIVE strcasecmp(_, _)
strcasecmp(s1, s2) ==
    IF s1 = <<>> /\ s2 = <<>> THEN 0
    ELSE IF s1 = <<>> THEN -1
    ELSE IF s2 = <<>> THEN 1
    ELSE IF Code(tolower(Head(s1))) # Code(tolower(Head(s2)))
         THEN (IF Code(tolower(Head(s1))) < Code(tolower(Head(s2))) THEN -1 ELSE 1)
    ELSE strcasecmp(Tail(s1), Tail(s2))

---------------------------------------------------------------------------
(* The destination format catalog.                                         *)

\* get_filetype with a copy-and-paste slip: "mov" answers FILETYPE_MP4.
get_filetype_mov_as_mp4(dt) ==
    IF strcasecmp(dt, <<"m","p","3">>) = 0 THEN "FILETYPE_MP3"
    ELSE IF strcasecmp(dt, <<"m","p","4">>) = 0 THEN "FILETYPE_MP4"
    ELSE IF strcasecmp(dt, <<"w","a","v">>) = 0 THEN "FILETYPE_WAV"
    ELSE IF strcasecmp(dt, <<"o","g","g">>) = 0 THEN "FILETYPE_OGG"
    ELSE IF strcasecmp(dt, <<"w","e","b","m">>) = 0 THEN "FILETYPE_WEBM"
    ELSE IF strcasecmp(dt, <<"m","o","v">>) = 0 THEN "FILETYPE_MP4"
    ELSE IF strcasecmp(dt, <<"a","i","f","f">>) = 0 THEN "FILETYPE_AIFF"
    ELSE IF strcasecmp(dt, <<"o","p","u","s">>) = 0 THEN "FILETYPE_OPUS"
    ELSE IF strcasecmp(dt, <<"p","r","o","r","e","s">>) = 0 THEN "FILETYPE_PRORES"
    ELSE "FILETYPE_UNKNOWN"

\* get_filetype that compares with strcmp: only the lower-case spelling matches.
get_filetype_case_sensitive(dt) ==
    IF strcmp(dt, <<"m","p","3">>) = 0 THEN "FILETYPE_MP3"
    ELSE IF strcmp(dt, <<"m","p","4">>) = 0 THEN "FILETYPE_MP4"
    ELSE IF strcmp(dt, <<"w","a","v">>) = 0 THEN "FILETYPE_WAV"
    ELSE IF strcmp(dt, <<"o","g","g">>) = 0 THEN "FILETYPE_OGG"
    ELSE IF strcmp(dt, <<"w","e","b","m">>) = 0 THEN "FILETYPE_WEBM"
    ELSE IF strcmp(dt, <<"m","o","v">>) = 0 THEN "FILETYPE_MOV"
    ELSE IF strcmp(dt, <<"a","i","f","f">>) = 0 THEN "FILETYPE_AIFF"
    ELSE IF strcmp(dt, <<"o","p","u","s">>) = 0 THEN "FILETYPE_OPUS"
    ELSE IF strcmp(dt, <<"p","r","o","r","e","s">>) = 0 THEN "FILETYPE_PRORES"
    ELSE "FILETYPE_UNKNOWN"

\* get_filetype that compares only as many characters as the token has
\* (strncasecmp): a token that begins a container's name matches it.
get_filetype_by_prefix(dt) ==
    IF Len(dt) <= 3 /\ strcasecmp(dt, SubSeq(<<"m","p","3">>, 1, Len(dt))) = 0
         THEN "FILETYPE_MP3"
    ELSE IF Len(dt) <= 3 /\ strcasecmp(dt, SubSeq(<<"m","p","4">>, 1, Len(dt))) = 0
         THEN "FILETYPE_MP4"
    ELSE IF Len(dt) <= 3 /\ strcasecmp(dt, SubSeq(<<"w","a","v">>, 1, Len(dt))) = 0
         THEN "FILETYPE_WAV"
    ELSE IF Len(dt) <= 3 /\ strcasecmp(dt, SubSeq(<<"o","g","g">>, 1, Len(dt))) = 0
         THEN "FILETYPE_OGG"
    ELSE IF Len(dt) <= 4 /\ strcasecmp(dt, SubSeq(<<"w","e","b","m">>, 1, Len(dt))) = 0
         THEN "FILETYPE_WEBM"
    ELSE IF Len(dt) <= 3 /\ strcasecmp(dt, SubSeq(<<"m","o","v">>, 1, Len(dt))) = 0
         THEN "FILETYPE_MOV"
    ELSE IF Len(dt) <= 4 /\ strcasecmp(dt, SubSeq(<<"a","i","f","f">>, 1, Len(dt))) = 0
         THEN "FILETYPE_AIFF"
    ELSE IF Len(dt) <= 4 /\ strcasecmp(dt, SubSeq(<<"o","p","u","s">>, 1, Len(dt))) = 0
         THEN "FILETYPE_OPUS"
    ELSE IF Len(dt) <= 6 /\ strcasecmp(dt, SubSeq(<<"p","r","o","r","e","s">>, 1, Len(dt))) = 0
         THEN "FILETYPE_PRORES"
    ELSE "FILETYPE_UNKNOWN"

\* FILETYPE get_filetype(const std::string & desttype)
get_filetype(dt) ==
    IF strcasecmp(dt, <<"m","p","3">>) = 0 THEN "FILETYPE_MP3"
    ELSE IF strcasecmp(dt, <<"m","p","4">>) = 0 THEN "FILETYPE_MP4"
    ELSE IF strcasecmp(dt, <<"w","a","v">>) = 0 THEN "FILETYPE_WAV"
    ELSE IF strcasecmp(dt, <<"o","g","g">>) = 0 THEN "FILETYPE_OGG"
    ELSE IF strcasecmp(dt, <<"w","e","b","m">>) = 0 THEN "FILETYPE_WEBM"
    ELSE IF strcasecmp(dt, <<"m","o","v">>) = 0 THEN "FILETYPE_MOV"
    ELSE IF strcasecmp(dt, <<"a","i","f","f">>) = 0 THEN "FILETYPE_AIFF"
    ELSE IF strcasecmp(dt, <<"o","p","u","s">>) = 0 THEN "FILETYPE_OPUS"
    ELSE IF strcasecmp(dt, <<"p","r","o","r","e","s">>) = 0 THEN "FILETYPE_PRORES"
    ELSE "FILETYPE_UNKNOWN"

\* split(input, ","): std::sregex_token_iterator with submatch -1.  Every
\* comma ends a token (an empty one too); the text after the last comma is a
\* token when it is not empty, and the whole input is the one token when it
\* holds no comma at all.
RECURSIVE split_from(_, _, _, _, _)
split_from(input, i, cur, acc, matched) ==
    IF i > Len(input)
    THEN (IF cur # <<>> \/ ~matched THEN Append(acc, cur) ELSE acc)
    ELSE IF input[i] = ","
         THEN split_from(input, i + 1, <<>>, Append(acc, cur), TRUE)
         ELSE split_from(input, i + 1, Append(cur, input[i]), acc, matched)

split(input) == split_from(input, 1, <<>>, <<>>, FALSE)

\* The for loop of get_filetype_from_list, from index n (0-based) with the
\* current value of filetype: it goes on while
\* n < desttype.size() && filetype != FILETYPE_UNKNOWN.
RECURSIVE from_list_loop(_, _, _)
from_list_loop(dts, n, ft) ==
    IF n < Len(dts) /\ ft # "FILETYPE_UNKNOWN"
    THEN from_list_loop(dts, n + 1, get_filetype(dts[n + 1]))
    ELSE ft

\* FILETYPE get_filetype_from_list(const std::string & desttypelist)
get_filetype_from_list(list) ==
    from_list_loop(split(list), 0, "FILETYPE_UNKNOWN")

\* A format object as its constructor leaves it (the constructor is declared
\* in ffmpeg_utils.h): no type, no codecs, empty strings.
ffmpegfs_format_new ==
    [ m_desttype       |-> <<>>,
      m_audio_codec_id |-> "AV_CODEC_ID_NONE",
      m_video_codec_id |-> "AV_CODEC_ID_NONE",
      m_filetype       |-> "FILETYPE_UNKNOWN",
      m_format_name    |-> <<>> ]

\* A switch whose mov case carries the video codec of the prores case.
fill_mov_with_prores_video(dt, audio, video, ft, name) ==
    [ m_desttype       |-> dt,
      m_audio_codec_id |-> audio,
      m_video_codec_id |-> IF ft = "FILETYPE_MOV" THEN "AV_CODEC_ID_PRORES"
                           ELSE video,
      m_filetype       |-> ft,
      m_format_name    |-> name ]

\* What one case of get_codecs' switch writes into the format object.
fill(dt, audio, video, ft, name) ==
    [ m_desttype       |-> dt,
      m_audio_codec_id |-> audio,
      m_video_codec_id |-> video,
      m_filetype       |-> ft,
      m_format_name    |-> name ]

\* int get_codecs(const std::string & desttype, ffmpegfs_format *format):
\* the value returned and the format object after the call.
get_codecs(dt, fmt) ==
    LET ft == get_filetype(dt) IN
    CASE ft = "FILETYPE_MP3" ->
           [ret |-> -1,
            format |-> fill(dt, "AV_CODEC_ID_MP3", "AV_CODEC_ID_NONE",
                            "FILETYPE_MP3", <<"m","p","3">>)]
      [] ft = "FILETYPE_MP4" ->
           [ret |-> -1,
            format |-> fill(dt, "AV_CODEC_ID_AAC", "AV_CODEC_ID_H264",
                            "FILETYPE_MP4", <<"m","p","4">>)]
      [] ft = "FILETYPE_WAV" ->
           [ret |-> -1,
            format |-> fill(dt, "AV_CODEC_ID_PCM_S16LE", "AV_CODEC_ID_NONE",
                            "FILETYPE_WAV", <<"w","a","v">>)]
      [] ft = "FILETYPE_OGG" ->
           [ret |-> -1,
            format |-> fill(dt, "AV_CODEC_ID_VORBIS", "AV_CODEC_ID_THEORA",
                            "FILETYPE_OGG", <<"o","g","g">>)]
      [] ft = "FILETYPE_WEBM" ->
           [ret |-> -1,
            format |-> fill(dt, "AV_CODEC_ID_OPUS", "AV_CODEC_ID_VP9",
                            "FILETYPE_WEBM", <<"w","e","b","m">>)]
      [] ft = "FILETYPE_MOV" ->
           [ret |-> -1,
            format |-> fill(dt, "AV_CODEC_ID_AAC", "AV_CODEC_ID_H264",
                            "FILETYPE_MOV", <<"m","o","v">>)]
      [] ft = "FILETYPE_AIFF" ->
           [ret |-> -1,
            format |-> fill(dt, "AV_CODEC_ID_PCM_S16BE", "AV_CODEC_ID_NONE",
                            "FILETYPE_AIFF", <<"a","i","f","f">>)]
      [] ft = "FILETYPE_OPUS" ->
           [ret |-> -1,
            format |-> fill(dt, "AV_CODEC_ID_OPUS", "AV_CODEC_ID_NONE",
                            "FILETYPE_OPUS", <<"o","p","u","s">>)]
      [] ft = "FILETYPE_PRORES" ->
           [ret |-> -1,
            format |-> fill(dt, "AV_CODEC_ID_PCM_S16LE", "AV_CODEC_ID_PRORES",
                            "FILETYPE_PRORES", <<"m","o","v">>)]
      [] ft = "FILETYPE_UNKNOWN" ->
           [ret |-> 0, format |-> fmt]

---------------------------------------------------------------------------
(* The catalog's operations as steps on one format object.                 *)

MaxList == 3

\* toupper over a whole token, and over its first letter.
toupper(c) ==
    IF Code(c) >= 97 /\ Code(c) <= 122 THEN Ascii[Code(c) - 32 - 43] ELSE c

Upper(s) == [i \in 1..Len(s) |-> toupper(s[i])]

Capitalised(s) == [i \in 1..Len(s) |-> IF i = 1 THEN toupper(s[i]) ELSE s[i]]

\* The canonical token of every container type but FILETYPE_UNKNOWN.
Canonical ==
    { <<"m","p","3">>, <<"m","p","4">>, <<"w","a","v">>, <<"o","g","g">>,
      <<"w","e","b","m">>, <<"m","o","v">>, <<"a","i","f","f">>,
      <<"o","p","u","s">>, <<"p","r","o","r","e","s">> }

\* Tokens no container answers to.
Unrecognised ==
    { <<"x","y","z">>, <<"a","b","c">>, <<>>, <<"m","p">>, <<"m","p","3","3">> }

\* The desttype arguments get_codecs is called with.
DestTypes ==
    Canonical \cup {Upper(t) : t \in Canonical}
              \cup {Capitalised(t) : t \in Canonical} \cup Unrecognised

\* The tokens the lists handed to get_filetype_from_list are made of.
ListTokens ==
    { <<"x","y","z">>, <<"a","b","c">>, <<"m","p","3">>, <<"m","p","4">>,
      <<"M","O","V">> }

\* The tokens joined with commas.
RECURSIVE Join(_)
Join(toks) ==
    IF toks = <<>> THEN <<>>
    ELSE IF Len(toks) = 1 THEN toks[1]
    ELSE toks[1] \o <<",">> \o Join(Tail(toks))

\* The desttypelist arguments: up to MaxList tokens, comma separated.
DestTypeLists ==
    UNION { {Join(toks) : toks \in [1..k -> ListTokens]} : k \in 0..MaxList }

InitFormat ==
    /\ call = NoCall
    /\ format = ffmpegfs_format_new
    /\ PathIdle
    /\ TreeIdle

\* get_codecs(desttype, &format) on the one format object.
GetCodecs ==
    \E dt \in DestTypes :
        LET r == get_codecs(dt, format) IN
        /\ format' = r.format
        /\ call' = [fn |-> "get_codecs", desttype |-> dt, before |-> format,
                    ret |-> r.ret]
        /\ UNCHANGED <<filename, ext, prev, n_replaced, treeVars>>

NextFormat == GetCodecs

SpecFormat == InitFormat /\ [][NextFormat]_vars

\* get_filetype_from_list is a function of its argument alone: the call is
\* entered with any list and returns.
InitList ==
    /\ call \in { [fn |-> "get_filetype_from_list", at |-> "entry",
                   desttypelist |-> list, ret |-> "none"] :
                  list \in DestTypeLists }
    /\ format = ffmpegfs_format_new
    /\ PathIdle
    /\ TreeIdle

GetFiletypeFromList ==
    /\ call.fn = "get_filetype_from_list"
    /\ call.at = "entry"
    /\ call' = [call EXCEPT !.at = "return",
                            !.ret = get_filetype_from_list(call.desttypelist)]
    /\ UNCHANGED <<format, filename, ext, prev, n_replaced, treeVars>>

NextList == GetFiletypeFromList

SpecList == InitList /\ [][NextList]_vars

---------------------------------------------------------------------------
(* Claims about the format catalog.                                        *)

\* The type of the first token get_filetype recognises, in list order;
\* FILETYPE_UNKNOWN when it recognises none.
RECURSIVE FirstRecognised(_)
FirstRecognised(dts) ==
    IF dts = <<>> THEN "FILETYPE_UNKNOWN"
    ELSE IF get_filetype(Head(dts)) # "FILETYPE_UNKNOWN"
         THEN get_filetype(Head(dts))
    ELSE FirstRecognised(Tail(dts))

\* C1: get_filetype_from_list returns the container type of the first token
\* of the comma separated list that get_filetype recognises, skipping the
\* unrecognised ones ("xyz,mp3,mp4" gives FILETYPE_MP3), and
\* FILETYPE_UNKNOWN only when every token is unrecognised.
C1_FirstRecognisedWins ==
    (call.fn = "get_filetype_from_list" /\ call.at = "return")
        => call.ret = FirstRecognised(split(call.desttypelist))

\* The fields of a format object other than the destination token.
CodecFields(f) ==
    <<f.m_audio_codec_id, f.m_video_codec_id, f.m_filetype, f.m_format_name>>

\* C7: after get_codecs with a token that matches no container, the format
\* object has container type FILETYPE_UNKNOWN and its codecs and container
\* name are cleared, whatever the object held before the call.
C7_MissClearsFormat ==
    (call.fn = "get_codecs" /\ get_filetype(call.desttype) = "FILETYPE_UNKNOWN")
        => CodecFields(format) = CodecFields(ffmpegfs_format_new)

\* The container type each canonical token stands for.
C8_TypeOf ==
    { << <<"m","p","3">>, "FILETYPE_MP3" >>,
      << <<"m","p","4">>, "FILETYPE_MP4" >>,
      << <<"w","a","v">>, "FILETYPE_WAV" >>,
      << <<"o","g","g">>, "FILETYPE_OGG" >>,
      << <<"w","e","b","m">>, "FILETYPE_WEBM" >>,
      << <<"m","o","v">>, "FILETYPE_MOV" >>,
      << <<"a","i","f","f">>, "FILETYPE_AIFF" >>,
      << <<"o","p","u","s">>, "FILETYPE_OPUS" >>,
      << <<"p","r","o","r","e","s">>, "FILETYPE_PRORES" >> }

\* C8: get_codecs on the canonical token of a container type yields that
\* type, a non-empty container name and an audio codec other than NONE; wav
\* gives PCM-16LE and no video, mp4 and mov give AAC + H.264, webm gives
\* Opus + VP9, prores gives PCM-16LE + ProRes with container name "mov".
C8_CatalogTotality ==
    call.fn = "get_codecs" =>
        /\ \A e \in C8_TypeOf :
              call.desttype = e[1] =>
                 /\ format.m_filetype = e[2]
                 /\ format.m_format_name # <<>>
                 /\ format.m_audio_codec_id # "AV_CODEC_ID_NONE"
        /\ call.desttype = <<"w","a","v">> =>
              /\ format.m_audio_codec_id = "AV_CODEC_ID_PCM_S16LE"
              /\ format.m_video_codec_id = "AV_CODEC_ID_NONE"
        /\ call.desttype \in { <<"m","p","4">>, <<"m","o","v">> } =>
              /\ format.m_audio_codec_id = "AV_CODEC_ID_AAC"
              /\ format.m_video_codec_id = "AV_CODEC_ID_H264"
        /\ call.desttype = <<"w","e","b","m">> =>
              /\ format.m_audio_codec_id = "AV_CODEC_ID_OPUS"
              /\ format.m_video_codec_id = "AV_CODEC_ID_VP9"
        /\ call.desttype = <<"p","r","o","r","e","s">> =>
              /\ format.m_audio_codec_id = "AV_CODEC_ID_PCM_S16LE"
              /\ format.m_video_codec_id = "AV_CODEC_ID_PRORES"
              /\ format.m_format_name = <<"m","o","v">>

\* get_codecs was called with "prores" and named the container "mov", on an
\* object that held another entry before.
C8_Witness ==
    /\ call.fn = "get_codecs"
    /\ call.desttype = <<"p","r","o","r","e","s">>
    /\ call.before.m_filetype = "FILETYPE_WAV"
    /\ format.m_format_name = <<"m","o","v">>

\* Two tokens that differ at most in letter case.
SameIgnoringCase(s, t) ==
    /\ Len(s) = Len(t)
    /\ \A i \in 1..Len(s) : tolower(s[i]) = tolower(t[i])

\* C9 as stated: for tokens that differ only in letter case, get_codecs
\* leaves equal format objects, every field the same (destination token,
\* audio codec, video codec, container type, container name).
C9_CaseInsensitiveEqual ==
    call.fn = "get_codecs" =>
        \A t \in DestTypes :
            SameIgnoringCase(call.desttype, t)
                => format = get_codecs(t, call.before).format

\* C9 amended: for tokens that differ only in letter case, get_codecs
\* returns the same status and leaves the same audio codec, video codec,
\* container type and container name; the destination token is stored as
\* the caller spelled it.
C9_CaseInsensitiveFields ==
    call.fn = "get_codecs" =>
        \A t \in DestTypes :
            SameIgnoringCase(call.desttype, t) =>
                /\ CodecFields(format)
                      = CodecFields(get_codecs(t, call.before).format)
                /\ call.ret = get_codecs(t, call.before).ret
                /\ call.ret # 0 => format.m_desttype = call.desttype

\* get_codecs was called with "MP3" in capitals and filled in the mp3 entry.
C9_Witness ==
    /\ call.fn = "get_codecs"
    /\ call.desttype = <<"M","P","3">>
    /\ call.before.m_filetype = "FILETYPE_UNKNOWN"
    /\ format.m_filetype = "FILETYPE_MP3"
    /\ format.m_desttype = <<"M","P","3">>

\* The catalog, one entry for each container type: audio codec, video
\* codec and container name.
C14_Catalog ==
    { <<"FILETYPE_MP3", "AV_CODEC_ID_MP3", "AV_CODEC_ID_NONE", <<"m","p","3">> >>,
      <<"FILETYPE_MP4", "AV_CODEC_ID_AAC", "AV_CODEC_ID_H264", <<"m","p","4">> >>,
      <<"FILETYPE_WAV", "AV_CODEC_ID_PCM_S16LE", "AV_CODEC_ID_NONE",
        <<"w","a","v">> >>,
      <<"FILETYPE_OGG", "AV_CODEC_ID_VORBIS", "AV_CODEC_ID_THEORA",
        <<"o","g","g">> >>,
      <<"FILETYPE_WEBM", "AV_CODEC_ID_OPUS", "AV_CODEC_ID_VP9",
        <<"w","e","b","m">> >>,
      <<"FILETYPE_MOV", "AV_CODEC_ID_AAC", "AV_CODEC_ID_H264", <<"m","o","v">> >>,
      <<"FILETYPE_AIFF", "AV_CODEC_ID_PCM_S16BE", "AV_CODEC_ID_NONE",
        <<"a","i","f","f">> >>,
      <<"FILETYPE_OPUS", "AV_CODEC_ID_OPUS", "AV_CODEC_ID_NONE",
        <<"o","p","u","s">> >>,
      <<"FILETYPE_PRORES", "AV_CODEC_ID_PCM_S16LE", "AV_CODEC_ID_PRORES",
        <<"m","o","v">> >> }

\* C14: after any sequence of get_codecs calls on a format object that
\* started as Unknown, the object is either still in its initial state, or
\* m_filetype is the type get_filetype gives for m_desttype and the audio
\* codec, video codec and container name are those of the one catalog entry
\* of that type, never a mix of two entries.
C14_FieldsOfOneEntry ==
    \/ format = ffmpegfs_format_new
    \/ /\ format.m_filetype = get_filetype(format.m_desttype)
       /\ \E e \in C14_Catalog :
             /\ e[1] = format.m_filetype
             /\ e[2] = format.m_audio_codec_id
             /\ e[3] = format.m_video_codec_id
             /\ e[4] = format.m_format_name

\* A call with an unrecognised token on an object that held the mov entry,
\* filled in by an earlier call: the entry is still there.
C14_Witness ==
    /\ call.fn = "get_codecs"
    /\ call.ret = 0
    /\ call.before.m_filetype = "FILETYPE_MOV"
    /\ format.m_filetype = "FILETYPE_MOV"
    /\ format.m_video_codec_id = "AV_CODEC_ID_H264"

\* A token that names a container of the catalog, in any letter case.
C15_Known(token) == \E e \in C8_TypeOf : SameIgnoringCase(token, e[1])

\* C15: get_codecs returns 0 exactly when the token matches no known
\* container, and returns -1 for every recognised token, for which it
\* fills the format object.
C15_StatusZeroIffUnknown ==
    call.fn = "get_codecs" =>
        /\ call.ret = 0 <=> ~C15_Known(call.desttype)
        /\ C15_Known(call.desttype) =>
              /\ call.ret = -1
              /\ format.m_desttype = call.desttype
              /\ format.m_filetype # "FILETYPE_UNKNOWN"
              /\ format.m_format_name # <<>>
              /\ format.m_audio_codec_id # "AV_CODEC_ID_NONE"

\* get_codecs returned -1 for "ogg" after it had returned 0 for a token no
\* container answers to: the object was untouched before and holds the ogg
\* entry now.
C15_Witness ==
    /\ call.fn = "get_codecs"
    /\ call.desttype = <<"o","g","g">>
    /\ call.ret = -1
    /\ call.before = ffmpegfs_format_new
    /\ format.m_filetype = "FILETYPE_OGG"

---------------------------------------------------------------------------
(* Path strings.                                                           *)

\* s.substr(pos, len) with a 0-based pos.
substr(s, pos, len) == SubSeq(s, pos + 1, pos + len)

\* std::string::npos
npos == -1

\* s.rfind(c): the 0-based place of the last c in s, npos when there is none.
rfind(s, c) ==
    IF \E i \in 1..Len(s) : s[i] = c
    THEN (CHOOSE i \in 1..Len(s) :
             s[i] = c /\ \A j \in (i + 1)..Len(s) : s[j] # c) - 1
    ELSE npos

\* replace_ext that cuts the name before the dot instead of after it.
replace_ext_drops_dot(fname, e) ==
    LET found == rfind(fname, ".") IN
    IF found = npos THEN fname \o <<".">> \o e
    ELSE substr(fname, 0, found) \o e

\* const std::string & replace_ext(std::string * filename, const std::string & ext):
\* the value of *filename after the call.
replace_ext(fname, e) ==
    LET found == rfind(fname, ".") IN
    IF found = npos THEN fname \o <<".">> \o e
    ELSE substr(fname, 0, found + 1) \o e

\* s without its trailing '/' characters.
RECURSIVE strip_trailing_slashes(_)
strip_trailing_slashes(s) ==
    IF s # <<>> /\ s[Len(s)] = "/"
    THEN strip_trailing_slashes(SubSeq(s, 1, Len(s) - 1))
    ELSE s

\* basename(3) of <libgen.h>: "." for the empty string, "/" for a string of
\* slashes, else the text after the last '/' once trailing slashes are gone.
basename(s) ==
    IF s = <<>> THEN <<".">>
    ELSE LET t == strip_trailing_slashes(s) IN
         IF t = <<>> THEN <<"/">>
         ELSE substr(t, rfind(t, "/") + 1, Len(t) - (rfind(t, "/") + 1))

\* const std::string & append_sep(std::string * path): *path after the
\* call.  (path->back() needs a path that is not empty; the result of
\* dirname, the one argument it gets here, never is.)
append_sep(path) ==
    IF path[Len(path)] # "/" THEN path \o <<"/">> ELSE path

\* dirname(3) of <libgen.h>: "." for a string with no '/', else the text
\* before the last '/' that has something other than '/' behind it, the
\* slashes that end this text left out; "/" when nothing else is left, and
\* "//" for exactly two leading slashes.
dirname(s) ==
    LET slash0 == rfind(s, "/")
        runp0  == Len(strip_trailing_slashes(s))
        last_slash ==
            IF slash0 # npos /\ slash0 # 0 /\ slash0 = Len(s) - 1 /\ runp0 # 0
            THEN rfind(substr(s, 0, runp0), "/")
            ELSE slash0
        runp == Len(strip_trailing_slashes(substr(s, 0, last_slash)))
    IN  IF last_slash = npos THEN <<".">>
        ELSE IF runp = 0
        THEN (IF last_slash = 1 THEN substr(s, 0, 2) ELSE substr(s, 0, 1))
        ELSE substr(s, 0, runp)

\* remove_filename that leaves dirname's result as it is.
remove_filename_without_sep(path) == dirname(path)

\* const std::string & remove_filename(std::string * path): *path after
\* the call.
remove_filename(path) == append_sep(dirname(path))

\* const std::string & remove_path(std::string *path): *path after the call.
remove_path(path) == basename(path)

\* const std::string & get_destname(std::string *destname, const std::string & filename),
\* with params.m_mountpath and params.current_format(filename)->m_format_name
\* as further inputs: *destname after the call.
get_destname(fname, mountpath, format_name) ==
    mountpath \o replace_ext(remove_path(fname), format_name)

MaxLen == 3

MaxExt == 2

MaxReplace == 2

\* The strings of at most k characters over an alphabet.
StringsOver(alphabet, k) == UNION { [1..l -> alphabet] : l \in 0..k }

\* The filenames and extensions replace_ext is tried on.
Filenames == StringsOver({"a", ".", "/"}, MaxLen)

Extensions == StringsOver({"x", "."}, MaxExt)

InitPath ==
    /\ call = NoCall
    /\ format = ffmpegfs_format_new
    /\ filename \in Filenames
    /\ ext \in Extensions
    /\ prev = filename
    /\ n_replaced = 0
    /\ TreeIdle

\* replace_ext(&filename, ext), on the string the last call left.
ReplaceExt ==
    /\ n_replaced < MaxReplace
    /\ prev' = filename
    /\ filename' = replace_ext(filename, ext)
    /\ n_replaced' = n_replaced + 1
    /\ call' = [fn |-> "replace_ext"]
    /\ UNCHANGED <<format, ext, treeVars>>

NextPath == ReplaceExt

SpecPath == InitPath /\ [][NextPath]_vars

\* The source paths, mount paths and container names get_destname is tried on.
SourceNames ==
    { <<"/","s","r","c","/","m","u","s","i","c","/","t","r","a","c","k",".","f","l","a","c">>,
      <<"t","r","a","c","k",".","f","l","a","c">>,
      <<"/","s","r","c","/","t","r","a","c","k">>,
      <<"/","s",".","d","/","t","r","a","c","k">>,
      <<"s","r","c","/","a",".","b",".","c">>,
      <<"/","s","r","c","/">> }

MountPaths ==
    { <<"/","m","n","t">>, <<"/","m","n","t","/">>, <<"/">>,
      <<"/","m","/","n","/">> }

FormatNames == { get_codecs(t, ffmpegfs_format_new).format.m_format_name :
                    t \in Canonical }

\* get_destname is a function of the source name, the mount path and the
\* current format's name: the call is entered with any of them and returns.
InitDest ==
    /\ call \in { [fn |-> "get_destname", at |-> "entry", filename |-> f,
                   m_mountpath |-> mp, m_format_name |-> fmt,
                   destname |-> <<>>] :
                  f \in SourceNames, mp \in MountPaths, fmt \in FormatNames }
    /\ format = ffmpegfs_format_new
    /\ PathIdle
    /\ TreeIdle

GetDestname ==
    /\ call.fn = "get_destname"
    /\ call.at = "entry"
    /\ call' = [call EXCEPT !.at = "return",
                            !.destname = get_destname(call.filename,
                                                      call.m_mountpath,
                                                      call.m_format_name)]
    /\ UNCHANGED <<format, filename, ext, prev, n_replaced, treeVars>>

NextDest == GetDestname

SpecDest == InitDest /\ [][NextDest]_vars

---------------------------------------------------------------------------
(* remove_filename and remove_path, each called once on a path.            *)

InitDir ==
    /\ call \in { [fn |-> f, at |-> "entry", path |-> s, ret |-> <<>>] :
                    f \in {"remove_filename", "remove_path"},
                    s \in Filenames }
    /\ format = ffmpegfs_format_new
    /\ PathIdle
    /\ TreeIdle

RemoveFilename ==
    /\ call.fn = "remove_filename"
    /\ call.at = "entry"
    /\ call' = [call EXCEPT !.at = "return", !.ret = remove_filename(call.path)]
    /\ UNCHANGED <<format, filename, ext, prev, n_replaced, treeVars>>

RemovePath ==
    /\ call.fn = "remove_path"
    /\ call.at = "entry"
    /\ call' = [call EXCEPT !.at = "return", !.ret = remove_path(call.path)]
    /\ UNCHANGED <<format, filename, ext, prev, n_replaced, treeVars>>

NextDir == RemoveFilename \/ RemovePath

SpecDir == InitDir /\ [][NextDir]_vars

---------------------------------------------------------------------------
(* mktree.  Each thread runs the function on its own copy of the path;     *)
(* strtok keeps its place in one static pointer that all threads share.    *)
(* A step is one access to shared state: the strtok that starts the call,  *)
(* a mkdir, the test of its result with the strtok that follows, and the   *)
(* delete [] before the return.                                            *)

MaxCalls == 2

MaxFaults == 1

\* new_strdup(str): the characters and the terminating NUL.
new_strdup(str) == str \o <<"NUL">>

\* The character at place i of thread b's path copy; past its end, the NUL
\* that the longer copy this memory held before ended with.
At(mem, b, i) == IF i <= Len(mem[b]) THEN mem[b][i] ELSE "NUL"

\* s + strspn(s, "/") and s + strcspn(s, "/"), as places.
RECURSIVE strspn(_, _, _)
strspn(mem, b, i) ==
    IF At(mem, b, i) = "/" THEN strspn(mem, b, i + 1) ELSE i

RECURSIVE strcspn(_, _, _)
strcspn(mem, b, i) ==
    IF At(mem, b, i) \in {"/", "NUL"} THEN i ELSE strcspn(mem, b, i + 1)

\* strtok(s, "/") from the place s (the caller passes olds for a null
\* argument): the token returned, the new value of the save pointer and the
\* memory, in which the delimiter that ended the token is now NUL.
strtok(mem, s) ==
    LET a == strspn(mem, s.b, s.i)
        e == strcspn(mem, s.b, a)
    IN  IF At(mem, s.b, s.i) = "NUL"
        THEN [tok |-> NullPtr, save |-> s, mem |-> mem]
        ELSE IF At(mem, s.b, a) = "NUL"
        THEN [tok |-> NullPtr, save |-> [b |-> s.b, i |-> a], mem |-> mem]
        ELSE IF At(mem, s.b, e) = "NUL"
        THEN [tok |-> [b |-> s.b, i |-> a], save |-> [b |-> s.b, i |-> e],
              mem |-> mem]
        ELSE [tok |-> [b |-> s.b, i |-> a], save |-> [b |-> s.b, i |-> e + 1],
              mem |-> [mem EXCEPT ![s.b][e] = "NUL"]]

\* The C string at a pointer: the characters up to the next NUL.
RECURSIVE c_str(_, _, _)
c_str(mem, b, i) ==
    IF At(mem, b, i) = "NUL" THEN <<>>
    ELSE <<At(mem, b, i)>> \o c_str(mem, b, i + 1)

\* A pointer into memory that was freed, or past the end of what is there
\* now: using it is undefined.
Wild(ptr) == ~live[ptr.b] \/ ptr.i > Len(buf[ptr.b])

\* The directory a path names: repeated and trailing slashes do not count.
RECURSIVE Resolve(_)
Resolve(d) ==
    IF d = <<>> THEN <<>>
    ELSE IF Head(d) = "/" /\ (Len(d) = 1 \/ d[2] = "/") THEN Resolve(Tail(d))
    ELSE <<Head(d)>> \o Resolve(Tail(d))

\* The directory that holds directory d; <<>> is "/".
Parent(d) == substr(d, 0, rfind(d, "/"))

\* mkdir(dir, mode): the value returned, errno and the file system after.
\* It fails with EEXIST when the directory exists and with ENOENT when its
\* parent does not; otherwise it makes the directory, or - while faults
\* are left - fails for a reason of the environment (EACCES).
mkdir(d) ==
    LET r == Resolve(d) IN
    (IF r = <<>> \/ r \in fs
     THEN {[newstat |-> -1, errno |-> "EEXIST", fs |-> fs, faults |-> faults]}
     ELSE IF Parent(r) # <<>> /\ Parent(r) \notin fs
     THEN {[newstat |-> -1, errno |-> "ENOENT", fs |-> fs, faults |-> faults]}
     ELSE {[newstat |-> 0, errno |-> "0", fs |-> fs \cup {r}, faults |-> faults]})
    \cup
    (IF faults < MaxFaults
     THEN {[newstat |-> -1, errno |-> "EACCES", fs |-> fs,
            faults |-> faults + 1]}
     ELSE {})

\* if (!status && newstat && errno != EEXIST)
fatal(st, ns, en) == st = 0 /\ ns # 0 /\ en # "EEXIST"

\* The paths mktree is called with: "/a/b/c" and "a//d".
TreePaths == { <<"/","a","/","b","/","c">>, <<"a","/","/","d">> }

\* The calls of mktree made so far, by all threads together.
CallsMade ==
    Len(rets[1]) + Len(rets[2])
        + Cardinality({t \in Threads : pc[t] \notin {"idle", "crashed"}})

InitTree ==
    /\ call = NoCall
    /\ format = ffmpegfs_format_new
    /\ PathIdle
    /\ TreeIdle

\* mktree(filename, mode) up to the while: the copy of the path, the first
\* strtok, status = 0.  (new[] throws instead of returning nullptr, so the
\* ENOMEM return is never taken.)
Enter(t) ==
    /\ pc[t] = "idle"
    /\ CallsMade < MaxCalls
    /\ \E f \in TreePaths :
          LET r == strtok([buf EXCEPT ![t] = new_strdup(f)], [b |-> t, i |-> 1])
          IN  /\ buf' = r.mem
              /\ olds' = r.save
              /\ p' = [p EXCEPT ![t] = r.tok]
              /\ pc' = [pc EXCEPT ![t] =
                           IF r.tok = NullPtr THEN "return" ELSE "mkdir"]
              /\ running' = [running EXCEPT ![t] =
                                [filename |-> f, mkdirs |-> <<>>]]
    /\ live' = [live EXCEPT ![t] = TRUE]
    /\ dir' = [dir EXCEPT ![t] = <<>>]
    /\ status' = [status EXCEPT ![t] = 0]
    /\ UNCHANGED <<fs, faults, newstat, errno, rets, pureVars>>

\* strcat(dir, "/"); strcat(dir, p); errno = 0; newstat = mkdir(dir, mode);
Mkdir(t) ==
    /\ pc[t] = "mkdir"
    /\ LET d == dir[t] \o <<"/">> \o c_str(buf, p[t].b, p[t].i) IN
       \E r \in mkdir(d) :
          /\ dir' = [dir EXCEPT ![t] = d]
          /\ newstat' = [newstat EXCEPT ![t] = r.newstat]
          /\ errno' = [errno EXCEPT ![t] = r.errno]
          /\ fs' = r.fs
          /\ faults' = r.faults
          /\ running' = [running EXCEPT ![t].mkdirs =
                            Append(@, [dir |-> d, errno |-> r.errno])]
    /\ pc' = [pc EXCEPT ![t] = "check"]
    /\ UNCHANGED <<olds, buf, live, p, status, rets, pureVars>>

\* The test of newstat: status = -1 and break, or status = newstat,
\* p = strtok(nullptr, "/") and the while test.
Check(t) ==
    /\ pc[t] = "check"
    /\ IF fatal(status[t], newstat[t], errno[t])
       THEN /\ status' = [status EXCEPT ![t] = -1]
            /\ pc' = [pc EXCEPT ![t] = "return"]
            /\ UNCHANGED <<olds, buf, p>>
       ELSE LET r == strtok(buf, olds) IN
            /\ status' = [status EXCEPT ![t] = newstat[t]]
            /\ buf' = r.mem
            /\ olds' = r.save
            /\ p' = [p EXCEPT ![t] = r.tok]
            /\ pc' = [pc EXCEPT ![t] =
                         IF r.tok = NullPtr THEN "return" ELSE "mkdir"]
    /\ UNCHANGED <<fs, faults, live, dir, newstat, errno, running, rets,
                   pureVars>>

\* delete [] path; return status;
Return(t) ==
    /\ pc[t] = "return"
    /\ live' = [live EXCEPT ![t] = FALSE]
    /\ rets' = [rets EXCEPT ![t] =
                   Append(@, [filename |-> running[t].filename,
                              status |-> status[t],
                              mkdirs |-> running[t].mkdirs])]
    /\ pc' = [pc EXCEPT ![t] = "idle"]
    /\ UNCHANGED <<fs, faults, olds, buf, p, dir, status, newstat, errno,
                   running, pureVars>>

\* A thread about to read through a wild pointer - p in strcat, olds in
\* strtok - may also bring the process down.
Crash(t) ==
    /\ \/ pc[t] = "mkdir" /\ Wild(p[t])
       \/ pc[t] = "check" /\ ~fatal(status[t], newstat[t], errno[t])
                          /\ Wild(olds)
    /\ pc' = [u \in Threads |-> "crashed"]
    /\ UNCHANGED <<fs, faults, olds, buf, live, p, dir, status, newstat,
                   errno, running, rets, pureVars>>

NextTree ==
    \E t \in Threads : Enter(t) \/ Mkdir(t) \/ Check(t) \/ Return(t) \/ Crash(t)

SpecTree == InitTree /\ [][NextTree]_vars

---------------------------------------------------------------------------
(* is_mount.  What stat reports for the file and for its parent directory  *)
(* are the inputs.                                                         *)

MaxDev == 2

MaxIno == 3

\* The file type bits of st_mode: directory, block device, regular file.
S_IFDIR == 16384

S_IFBLK == 24576

S_IFREG == 32768

\* st_mode & S_IFDIR, as a truth value (S_IFDIR is a single bit).
IsDirBit(st_mode) == (st_mode \div S_IFDIR) % 2 = 1

\* A failed stat, and the successful ones.
StatFailed == [rc |-> -1, st_mode |-> 0, st_dev |-> 0, st_ino |-> 0]

StatOk(modes) ==
    { [rc |-> 0, st_mode |-> m, st_dev |-> d, st_ino |-> i] :
        m \in modes, d \in 1..MaxDev, i \in 1..MaxIno }

\* What the two stat calls can report together: a parent that can be
\* examined is a directory, and a file with its parent's device and inode
\* is that directory.
StatPairs ==
    { pair \in ({StatFailed} \cup StatOk({S_IFDIR, S_IFBLK, S_IFREG}))
                  \X ({StatFailed} \cup StatOk({S_IFDIR})) :
        (/\ pair[1].rc = 0
         /\ pair[2].rc = 0
         /\ pair[1].st_dev = pair[2].st_dev
         /\ pair[1].st_ino = pair[2].st_ino) => pair[1].st_mode = pair[2].st_mode }

\* is_mount with the failed stat calls left uncaught: ret keeps its initial
\* 0 when a stat fails.
is_mount_failure_as_not_mount(file_stat, parent_stat) ==
    IF file_stat.rc = -1 THEN 0
    ELSE IF ~IsDirBit(file_stat.st_mode) THEN -1
    ELSE IF parent_stat.rc = -1 THEN 0
    ELSE IF \/ file_stat.st_dev # parent_stat.st_dev
            \/ (/\ file_stat.st_dev = parent_stat.st_dev
                /\ file_stat.st_ino = parent_stat.st_ino)
         THEN 1
         ELSE 0

\* int is_mount(const std::string & filename): the value returned, every
\* throw -1 caught into ret.
is_mount(file_stat, parent_stat) ==
    IF file_stat.rc = -1 THEN -1
    ELSE IF ~IsDirBit(file_stat.st_mode) THEN -1
    ELSE IF parent_stat.rc = -1 THEN -1
    ELSE IF \/ file_stat.st_dev # parent_stat.st_dev
            \/ (/\ file_stat.st_dev = parent_stat.st_dev
                /\ file_stat.st_ino = parent_stat.st_ino)
         THEN 1
         ELSE 0

InitMount ==
    /\ call \in { [fn |-> "is_mount", at |-> "entry", file_stat |-> pair[1],
                   parent_stat |-> pair[2], ret |-> 0] : pair \in StatPairs }
    /\ format = ffmpegfs_format_new
    /\ PathIdle
    /\ TreeIdle

IsMount ==
    /\ call.fn = "is_mount"
    /\ call.at = "entry"
    /\ call' = [call EXCEPT !.at = "return",
                            !.ret = is_mount(call.file_stat, call.parent_stat)]
    /\ UNCHANGED <<format, filename, ext, prev, n_replaced, treeVars>>

NextMount == IsMount

SpecMount == InitMount /\ [][NextMount]_vars

---------------------------------------------------------------------------
(* Claims about the path strings.                                          *)

\* The mount root, one '/', and the name: what a join with exactly one
\* separator gives whether or not the root ends in '/'.
JoinedWithOneSeparator(root, name) ==
    (IF root # <<>> /\ root[Len(root)] = "/"
     THEN SubSeq(root, 1, Len(root) - 1) ELSE root) \o <<"/">> \o name

\* C2: get_destname joins the mount root and the transformed filename with
\* exactly one '/', whether or not the mount root already ends in '/':
\* "/src/music/track.flac" with mp3 gives "/mnt/track.mp3" under both
\* "/mnt" and "/mnt/".
C2_ExactlyOneSeparator ==
    (call.fn = "get_destname" /\ call.at = "return") =>
        call.destname =
            JoinedWithOneSeparator(call.m_mountpath,
                replace_ext(remove_path(call.filename), call.m_format_name))

\* C6 as stated: for any filename and any target extension, replacing the
\* extension a second time changes nothing.
C6_ReplaceExtIdempotent ==
    n_replaced >= 2 => filename = prev

\* C6 amended: for any filename and any target extension that holds no
\* '.', replacing the extension a second time changes nothing.
C6_ReplaceExtIdempotentNoDot ==
    (n_replaced >= 2 /\ \A i \in 1..Len(ext) : ext[i] # ".")
        => filename = prev

\* replace_ext ran twice with a dot-free extension on a name that had an
\* extension of its own.
C6_Witness ==
    /\ n_replaced = 2
    /\ ext = <<"x">>
    /\ filename = <<"a", ".", "x">>
    /\ prev = filename

\* A path that holds no '/'.
NoSeparator(path) == \A i \in 1..Len(path) : path[i] # "/"

\* C13 as stated: remove_filename returns "/" for the path "/" and "." for
\* a path that holds no separator; remove_path returns a path that holds no
\* separator unchanged.
C13_PosixEdgeCases ==
    call.at = "return" =>
        /\ (call.fn = "remove_filename" /\ call.path = <<"/">>)
              => call.ret = <<"/">>
        /\ (call.fn = "remove_filename" /\ NoSeparator(call.path))
              => call.ret = <<".">>
        /\ (call.fn = "remove_path" /\ NoSeparator(call.path))
              => call.ret = call.path

\* C13 amended: remove_filename returns "/" for the path "/" and "./" for
\* a path that holds no separator; remove_path returns a non-empty path
\* that holds no separator unchanged, and "." for the empty path.
C13_EdgeCasesWithSeparator ==
    call.at = "return" =>
        /\ (call.fn = "remove_filename" /\ call.path = <<"/">>)
              => call.ret = <<"/">>
        /\ (call.fn = "remove_filename" /\ NoSeparator(call.path))
              => call.ret = <<".", "/">>
        /\ (call.fn = "remove_path" /\ NoSeparator(call.path))
              => call.ret = (IF call.path = <<>> THEN <<".">> ELSE call.path)

\* remove_filename returned for a one-letter path with no separator.
C13_Witness ==
    /\ call.fn = "remove_filename"
    /\ call.at = "return"
    /\ call.path = <<"a">>
    /\ call.ret = <<".", "/">>

---------------------------------------------------------------------------
(* Claims about mktree.                                                    *)

\* A mkdir that failed for another reason than "already exists".
OtherFailure(m) == m.errno \notin {"0", "EEXIST"}

\* No mkdir in the sequence failed for another reason than "already exists".
OnlyExists(mkdirs) == \A i \in 1..Len(mkdirs) : ~OtherFailure(mkdirs[i])

\* C3: a thread that calls mktree on the same path twice in a row, with no
\* thread beside it and no mkdir failure other than "already exists", gets
\* status 0 from both calls.
C3_TwiceInARowSucceeds ==
    \A t \in Threads :
        ( /\ Len(rets[t]) >= 2
          /\ rets[t][1].filename = rets[t][2].filename
          /\ OnlyExists(rets[t][1].mkdirs)
          /\ OnlyExists(rets[t][2].mkdirs)
          /\ \A u \in Threads \ {t} : rets[u] = <<>> /\ pc[u] = "idle" )
        => (rets[t][1].status = 0 /\ rets[t][2].status = 0)

\* C4: when two threads are inside mktree on the same path at the same
\* time and no mkdir fails for another reason than "already exists", both
\* leave the loop with status 0.
C4_ConcurrentCallersSucceed ==
    ( /\ \A t \in Threads : pc[t] = "return"
      /\ \A t, u \in Threads : running[t].filename = running[u].filename
      /\ \A t \in Threads : OnlyExists(running[t].mkdirs) )
    => \A t \in Threads : status[t] = 0

\* A mkdir that followed one that failed for another reason than "already
\* exists".
MkdirAfterFailure(mkdirs) ==
    \E i, j \in 1..Len(mkdirs) : i < j /\ OtherFailure(mkdirs[i])

\* C5: once a mkdir of a call fails for another reason than "already
\* exists", the call makes no further mkdir and returns a status other
\* than 0, whatever happened to the components before.
C5_FailureStopsAndFails ==
    \A t \in Threads :
        /\ ~MkdirAfterFailure(running[t].mkdirs)
        /\ \A k \in 1..Len(rets[t]) :
              ~OnlyExists(rets[t][k].mkdirs) => rets[t][k].status # 0

\* The components of a path: what lies between its '/' characters, the
\* empty pieces left out.
RECURSIVE Components(_, _)
Components(path, piece) ==
    IF path = <<>> THEN (IF piece = <<>> THEN <<>> ELSE <<piece>>)
    ELSE IF Head(path) = "/"
    THEN (IF piece = <<>> THEN <<>> ELSE <<piece>>)
             \o Components(Tail(path), <<>>)
    ELSE Components(Tail(path), Append(piece, Head(path)))

\* The i-th successive prefix of a path: its first i components, each
\* behind a '/'.
RECURSIVE SuccessivePrefix(_, _)
SuccessivePrefix(comps, i) ==
    IF i = 0 THEN <<>>
    ELSE SuccessivePrefix(comps, i - 1) \o <<"/">> \o comps[i]

\* C12: when two threads run mktree at the same time on different paths
\* (each in its first call), the i-th directory a call has tried to make is
\* the i-th successive prefix of its own path, and a call that leaves the
\* loop with no mkdir failed other than "already exists" has tried them
\* all: no call is touched by the other.
C12_OwnPrefixesOnly ==
    ( /\ \A t \in Threads : pc[t] \in {"mkdir", "check", "return"}
      /\ \A t \in Threads : rets[t] = <<>>
      /\ running[1].filename # running[2].filename )
    => \A t \in Threads :
          LET comps == Components(running[t].filename, <<>>)
              made  == running[t].mkdirs
          IN  /\ Len(made) <= Len(comps)
              /\ \A i \in 1..Len(made) :
                    i <= Len(comps) =>
                        made[i].dir = SuccessivePrefix(comps, i)
              /\ (pc[t] = "return" /\ OnlyExists(made))
                    => Len(made) = Len(comps)

---------------------------------------------------------------------------
(* Claims about is_mount.                                                  *)

\* C10: is_mount reports 1 (a mount point) for a path whose device id
\* differs from its parent's or whose device id and inode both equal its
\* parent's, and reports 0 (not a mount point) for a regular file inside an
\* ordinary directory.
C10_MountDetection ==
    ( /\ call.fn = "is_mount"
      /\ call.at = "return"
      /\ call.file_stat.rc = 0
      /\ call.parent_stat.rc = 0 )
    => /\ ( \/ call.file_stat.st_dev # call.parent_stat.st_dev
            \/ (/\ call.file_stat.st_dev = call.parent_stat.st_dev
                /\ call.file_stat.st_ino = call.parent_stat.st_ino) )
          => call.ret = 1
       /\ ( /\ call.file_stat.st_mode = S_IFREG
            /\ call.parent_stat.st_mode = S_IFDIR
            /\ call.file_stat.st_dev = call.parent_stat.st_dev
            /\ call.file_stat.st_ino # call.parent_stat.st_ino )
          => call.ret = 0

\* C11: when the stat of the path or of its parent fails, is_mount returns
\* an outcome that is neither 1 (a mount point) nor 0 (not a mount point):
\* a failed stat is never reported as "not a mount point".
C11_StatFailureIndeterminate ==
    ( /\ call.fn = "is_mount"
      /\ call.at = "return"
      /\ (call.file_stat.rc = -1 \/ call.parent_stat.rc = -1) )
    => (call.ret # 1 /\ call.ret # 0)

\* is_mount returned for a directory whose own stat succeeded and whose
\* parent's stat failed.
C11_Witness ==
    /\ call.fn = "is_mount"
    /\ call.at = "return"
    /\ call.file_stat.rc = 0
    /\ call.file_stat.st_mode = S_IFDIR
    /\ call.parent_stat.rc = -1
    /\ call.ret = -1

====
